---- MODULE Spec2Model ----
(***************************************************************************)
(* A model of the random-data-provider client (src/lib/commands.js): the   *)
(* command builder (lines 6-27) and the Client class (lines 67-249).       *)
(*                                                                         *)
(* Numbers are exact rationals <<n, d>> with d > 0; d = 0 encodes the      *)
(* IEEE specials: <<1,0>> is Infinity, <<-1,0>> is -Infinity, <<0,0>> is   *)
(* NaN.  The empty tuple is JavaScript's null.  Series elements are        *)
(* integers.  For the integers used here a quotient is never within one    *)
(* ulp of a rounding tie that is not exactly representable in binary, so   *)
(* rounding the exact quotient agrees with rounding the double.            *)
(***************************************************************************)
EXTENDS Integers, Sequences, FiniteSets, TLC

\* ------------------------------------------------------------------ bounds

\* uuid() is modelled as a counter; no handler runs that would need an
\* identifier beyond MaxUuid.
MaxUuid == 4

\* The event identifiers a server announces.
EventIds == {"e1", "e2"}

\* The numeric series a data response may carry (set1 or set2).
Series == { <<10, 20>>, <<5, 18>>, <<0, 20>>, <<9, 16, 0>> }

\* The (minDiv, maxDiv) pairs a server announces: (1.0, 2.0) and (0.5, 1.11).
BoundPairs == { << <<1, 1>>, <<2, 1>> >>, << <<1, 2>>, <<111, 100>> >> }

\* ------------------------------------------------------ JavaScript numbers

Null == <<>>
NaN == <<0, 0>>
Infinity == <<1, 0>>
NegInfinity == <<-1, 0>>
Undefined == "undefined"

Abs(x) == IF x < 0 THEN -x ELSE x
Sign(x) == IF x < 0 THEN -1 ELSE IF x > 0 THEN 1 ELSE 0

RECURSIVE Pow10(_)
Pow10(k) == IF k <= 0 THEN 1 ELSE 10 * Pow10(k - 1)

RECURSIVE Gcd(_, _)
Gcd(a, b) == IF b = 0 THEN a ELSE Gcd(b, a % b)

\* A rational in lowest terms: the same number has one representation.
Rat(n, d) == IF n = 0 THEN <<0, 1>>
             ELSE LET g == Gcd(Abs(n), d) IN <<n \div g, d \div g>>

\* ToNumber, as the relational operators apply it: null is +0.
ToNumber(x) == IF x = Null THEN <<0, 1>> ELSE x

\* x < y of JavaScript: false when either side is NaN.
JsLtMutLe(x, y) ==
    LET a == ToNumber(x)
        b == ToNumber(y)
    IN  IF a = NaN \/ b = NaN THEN FALSE
        ELSE IF a[2] = 0 /\ b[2] = 0 THEN a[1] <= b[1]
        ELSE IF a[2] = 0 THEN a[1] < 0
        ELSE IF b[2] = 0 THEN b[1] > 0
        ELSE a[1] * b[2] <= b[1] * a[2]

JsLtMutInfinityBelow(x, y) ==
    LET a == ToNumber(x)
        b == ToNumber(y)
    IN  IF a = NaN \/ b = NaN THEN FALSE
        ELSE IF a[2] = 0 /\ b[2] = 0 THEN a[1] < b[1]
        ELSE IF a[2] = 0 THEN TRUE
        ELSE IF b[2] = 0 THEN b[1] > 0
        ELSE a[1] * b[2] < b[1] * a[2]

JsLt(x, y) ==
    LET a == ToNumber(x)
        b == ToNumber(y)
    IN  IF a = NaN \/ b = NaN THEN FALSE
        ELSE IF a[2] = 0 /\ b[2] = 0 THEN a[1] < b[1]
        ELSE IF a[2] = 0 THEN a[1] < 0
        ELSE IF b[2] = 0 THEN b[1] > 0
        ELSE a[1] * b[2] < b[1] * a[2]

\* set1[n] / set2[n] for elements <<v>>; an index past the end reads
\* undefined, written <<>>, and undefined / v is NaN.
JsDiv(x, y) ==
    IF x = <<>> \/ y = <<>> THEN NaN
    ELSE IF y[1] = 0 THEN
        IF x[1] > 0 THEN Infinity ELSE IF x[1] < 0 THEN NegInfinity ELSE NaN
    ELSE Rat(Sign(y[1]) * x[1], Abs(y[1]))

\* The decimal exponent e of a positive rational: 10^e <= n/d < 10^(e+1).
RECURSIVE Exponent(_, _)
Exponent(n, d) ==
    IF n >= 10 * d THEN Exponent(n, 10 * d) + 1
    ELSE IF n < d THEN Exponent(10 * n, d) - 1
    ELSE 0

\* Number.prototype.toPrecision(3) followed by parseFloat: the nearest
\* number with three significant digits, the larger one on a tie.
ToPrecision3Decimals(x) ==
    IF x[2] = 0 \/ x[1] = 0 THEN x
    ELSE LET n == Abs(x[1])
             m == (2 * n * 1000 + x[2]) \div (2 * x[2])
         IN  Rat(Sign(x[1]) * m, 1000)

ToPrecision3(x) ==
    IF x[2] = 0 \/ x[1] = 0 THEN x
    ELSE LET n == Abs(x[1])
             d == x[2]
             e == Exponent(n, d)
             num == IF e <= 2 THEN n * Pow10(2 - e) ELSE n
             den == IF e <= 2 THEN d ELSE d * Pow10(e - 2)
             m == (2 * num + den) \div (2 * den)
         IN  IF e >= 2 THEN Rat(Sign(x[1]) * m * Pow10(e - 2), 1)
             ELSE Rat(Sign(x[1]) * m, Pow10(2 - e))


\* ------------------------------------------------------------------ state

VARIABLES
    ws,            \* this._ws: "none" before _connect, then the socket's state
    pullInterval,  \* this._pullInterval: "null", "armed" or "cleared"
    minDiv,        \* this._minDiv
    maxDiv,        \* this._maxDiv
    events,        \* this._events: request id -> event id
    nextUuid,      \* the next identifier uuid() returns
    proc,          \* the process: "running", "exited" or "crashed"
    exitCodes,     \* the codes process.exit was called with, in order
    fx,            \* what the last handler did: sends, clearInterval, close, exit
    last,          \* the notification the last handler was called for
    retired        \* request ids tracked in a poll cycle that has been superseded

vars == <<ws, pullInterval, minDiv, maxDiv, events, nextUuid, proc, exitCodes,
          fx, last, retired>>

\* ------------------------------------------------------- command builder

getEvents == [cmd |-> "getEvents"]

getData(eventId) == [cmd |-> "getData", eventId |-> eventId]

confirm(eventId, set, n, div) ==
    [cmd |-> "confirm", eventId |-> eventId, set |-> set, n |-> n, div |-> div]

\* ------------------------------------------------------------ the client

\* JSON.stringify({ ...command, _reqId: reqId }): a key whose value is
\* undefined is left out of the text (eventId is the only field a caller
\* can leave undefined).
Stringify(command, reqId) ==
    LET keys == {k \in DOMAIN command :
                    k = "eventId" => command[k] # Undefined} \cup {"reqId"}
    IN  [k \in keys |-> IF k = "reqId" THEN reqId ELSE command[k]]

\* _send(command, reqId): the effect of handing one message to the socket.
SendMutNoStamp(command, reqId) ==
    [op |-> "send", msg |-> [k \in DOMAIN command |-> command[k]]]

Send(command, reqId) == [op |-> "send", msg |-> Stringify(command, reqId)]

\* this._events[reqId]
Resolve(table, reqId) ==
    IF reqId \in DOMAIN table THEN table[reqId] ELSE Undefined

\* set[n] for a zero-based n: <<v>>, or <<>> for undefined
At(set, n) == IF n + 1 \in DOMAIN set THEN <<set[n + 1]>> ELSE <<>>

\* The rounded quotient of line 210, for every pair of series and index.
MaxLen == 3

DivTable ==
    [set1 \in Series, set2 \in Series |->
        [n \in 0..(MaxLen - 1) |->
            ToPrecision3(JsDiv(At(set1, n), At(set2, n)))]]

Div(set1, set2, n) == DivTable[set1, set2][n]

\* The indices of set1, in the order of the for-in loop, whose rounded
\* quotient lies inside the bounds.
RECURSIVE HitsFromMutFirstOnly(_, _, _, _, _)
HitsFromMutFirstOnly(set1, set2, mn, mx, n) ==
    IF n >= Len(set1) THEN <<>>
    ELSE LET div == Div(set1, set2, n)
         IN  IF JsLt(mn, div) /\ JsLt(div, mx) THEN <<n>>
             ELSE HitsFromMutFirstOnly(set1, set2, mn, mx, n + 1)

RECURSIVE HitsFrom(_, _, _, _, _)
HitsFrom(set1, set2, mn, mx, n) ==
    IF n >= Len(set1) THEN <<>>
    ELSE LET div == Div(set1, set2, n)
             rest == HitsFrom(set1, set2, mn, mx, n + 1)
         IN  IF JsLt(mn, div) /\ JsLt(div, mx) THEN <<n>> \o rest ELSE rest

\* _processSet: the sends it makes, the first with identifier `first`.
ProcessSet(set1, set2, set, eventId, mn, mx, first) ==
    LET hits == HitsFrom(set1, set2, mn, mx, 0)
    IN  [k \in 1..Len(hits) |->
            Send(confirm(eventId, set, hits[k], Div(set1, set2, hits[k])),
                 first + k - 1)]


\* ------------------------------------------------------- inbound messages

\* The keys of a message's `events` object, in the order Object.keys
\* lists them.
KeySeqs ==
    {<<>>} \cup {<<a>> : a \in EventIds}
           \cup {p \in EventIds \X EventIds : p[1] # p[2]}

Ids == 1..MaxUuid

EventsMsgs ==
    {[events |-> ks, minDiv |-> b[1], maxDiv |-> b[2]] :
        ks \in KeySeqs, b \in BoundPairs}

DataMsgs ==
    {[data |-> [set1 |-> s1, set2 |-> s2], reqId |-> r] :
        s1 \in Series, s2 \in Series, r \in Ids}

TerminalMsgs == {[message |-> "Win"], [message |-> "Lose"]}

\* Messages of no recognised shape.
OtherMsgs == {[message |-> "Draw"], [reqId |-> 1]}

\* Messages that satisfy more than one shape.
MixedMsgs ==
    {[events |-> <<"e1">>, minDiv |-> <<1, 1>>, maxDiv |-> <<2, 1>>,
      data |-> [set1 |-> <<10, 20>>, set2 |-> <<5, 18>>], reqId |-> 2]}
    \cup {[events |-> <<"e2">>, minDiv |-> <<1, 1>>, maxDiv |-> <<2, 1>>,
           message |-> t] : t \in {"Win", "Lose"}}
    \cup {[data |-> [set1 |-> <<10, 20>>, set2 |-> <<5, 18>>], reqId |-> 2,
           message |-> t] : t \in {"Win", "Lose"}}

Inbound == EventsMsgs \cup DataMsgs \cup TerminalMsgs \cup OtherMsgs
           \cup MixedMsgs

\* A text that JSON.parse rejects.
Unparseable == [unparseable |-> TRUE]

\* The switch (true) of _onMessage: the first case that holds.
ClassifyMutDataFirst(data) ==
    IF "data" \in DOMAIN data THEN "data"
    ELSE IF "events" \in DOMAIN data THEN "events"
    ELSE IF "message" \in DOMAIN data /\ data.message = "Lose" THEN "lose"
    ELSE IF "message" \in DOMAIN data /\ data.message = "Win" THEN "win"
    ELSE "none"

ClassifyMutAnyMessage(data) ==
    IF "events" \in DOMAIN data THEN "events"
    ELSE IF "data" \in DOMAIN data THEN "data"
    ELSE IF "message" \in DOMAIN data THEN "lose"
    ELSE "none"

Classify(data) ==
    IF "events" \in DOMAIN data THEN "events"
    ELSE IF "data" \in DOMAIN data THEN "data"
    ELSE IF "message" \in DOMAIN data /\ data.message = "Lose" THEN "lose"
    ELSE IF "message" \in DOMAIN data /\ data.message = "Win" THEN "win"
    ELSE "none"

\* ---------------------------------------------------------------- actions

Init ==
    /\ ws = "none"
    /\ pullInterval = "null"
    /\ minDiv = Null
    /\ maxDiv = Null
    /\ events = << >>
    /\ nextUuid = 1
    /\ proc = "running"
    /\ exitCodes = << >>
    /\ fx = << >>
    /\ last = [kind |-> "constructor"]
    /\ retired = {}

\* start(): _connect() creates the socket and registers the handlers.  The
\* embedding program starts a client once.
Start ==
    /\ proc = "running"
    /\ ws = "none"
    /\ ws' = "CONNECTING"
    /\ fx' = << >>
    /\ last' = [kind |-> "start"]
    /\ UNCHANGED <<pullInterval, minDiv, maxDiv, events, nextUuid, proc,
                   exitCodes, retired>>

\* _onOpen: one getEvents now, then the interval is armed.
OnOpenMutNoFirstPoll ==
    /\ proc = "running"
    /\ ws = "CONNECTING"
    /\ nextUuid <= MaxUuid
    /\ ws' = "OPEN"
    /\ fx' = <<[op |-> "setInterval"]>>
    /\ nextUuid' = nextUuid
    /\ pullInterval' = "armed"
    /\ last' = [kind |-> "open"]
    /\ UNCHANGED <<minDiv, maxDiv, events, proc, exitCodes, retired>>

OnOpen ==
    /\ proc = "running"
    /\ ws = "CONNECTING"
    /\ nextUuid <= MaxUuid
    /\ ws' = "OPEN"
    /\ fx' = <<Send(getEvents, nextUuid), [op |-> "setInterval"]>>
    /\ nextUuid' = nextUuid + 1
    /\ pullInterval' = "armed"
    /\ last' = [kind |-> "open"]
    /\ UNCHANGED <<minDiv, maxDiv, events, proc, exitCodes, retired>>

\* A tick of the interval: this._send.bind(this, Commands.getEvents()).
Tick ==
    /\ proc = "running"
    /\ pullInterval = "armed"
    /\ nextUuid <= MaxUuid
    /\ fx' = <<Send(getEvents, nextUuid)>>
    /\ nextUuid' = nextUuid + 1
    /\ last' = [kind |-> "tick"]
    /\ UNCHANGED <<ws, pullInterval, minDiv, maxDiv, events, proc, exitCodes,
                   retired>>

\* stop(code) once the socket exists: clearInterval, close, process.exit.
StopMutNoExit(code) ==
    /\ pullInterval' = IF pullInterval = "armed" THEN "cleared" ELSE pullInterval
    /\ ws' = "CLOSING"
    /\ proc' = proc
    /\ exitCodes' = Append(exitCodes, code)
    /\ fx' = <<[op |-> "clearInterval"], [op |-> "close"],
               [op |-> "exit", code |-> code]>>
    /\ UNCHANGED <<minDiv, maxDiv, events, nextUuid, retired>>

StopMutCloseFirst(code) ==
    /\ pullInterval' = IF pullInterval = "armed" THEN "cleared" ELSE pullInterval
    /\ ws' = "CLOSING"
    /\ proc' = "exited"
    /\ exitCodes' = Append(exitCodes, code)
    /\ fx' = <<[op |-> "close"], [op |-> "clearInterval"],
               [op |-> "exit", code |-> code]>>
    /\ UNCHANGED <<minDiv, maxDiv, events, nextUuid, retired>>

stop(code) ==
    /\ pullInterval' = IF pullInterval = "armed" THEN "cleared" ELSE pullInterval
    /\ ws' = "CLOSING"
    /\ proc' = "exited"
    /\ exitCodes' = Append(exitCodes, code)
    /\ fx' = <<[op |-> "clearInterval"], [op |-> "close"],
               [op |-> "exit", code |-> code]>>
    /\ UNCHANGED <<minDiv, maxDiv, events, nextUuid, retired>>

\* _onEventsHandler
OnEventsHandlerMutReuseIds(data) ==
    LET ks == data.events
    IN  /\ events' = [r \in 1..Len(ks) |-> ks[r]]
        /\ minDiv' = data.minDiv
        /\ maxDiv' = data.maxDiv
        /\ fx' = [k \in 1..Len(ks) |-> Send(getData(ks[k]), k)]
        /\ nextUuid' = nextUuid
        /\ retired' = retired \cup DOMAIN events
        /\ UNCHANGED <<ws, pullInterval, proc, exitCodes>>

OnEventsHandlerMutKeepsMax(data) ==
    LET ks == data.events
        ids == nextUuid..(nextUuid + Len(ks) - 1)
    IN  /\ nextUuid + Len(ks) - 1 <= MaxUuid
        /\ events' = [r \in ids |-> ks[r - nextUuid + 1]]
        /\ minDiv' = data.minDiv
        /\ maxDiv' = maxDiv
        /\ fx' = [k \in 1..Len(ks) |-> Send(getData(ks[k]), nextUuid + k - 1)]
        /\ nextUuid' = nextUuid + Len(ks)
        /\ retired' = retired \cup DOMAIN events
        /\ UNCHANGED <<ws, pullInterval, proc, exitCodes>>

OnEventsHandlerMutMerge(data) ==
    LET ks == data.events
        ids == nextUuid..(nextUuid + Len(ks) - 1)
    IN  /\ nextUuid + Len(ks) - 1 <= MaxUuid
        /\ events' = [r \in DOMAIN events \cup ids |->
                        IF r \in ids THEN ks[r - nextUuid + 1] ELSE events[r]]
        /\ minDiv' = data.minDiv
        /\ maxDiv' = data.maxDiv
        /\ fx' = [k \in 1..Len(ks) |-> Send(getData(ks[k]), nextUuid + k - 1)]
        /\ nextUuid' = nextUuid + Len(ks)
        /\ retired' = retired \cup DOMAIN events
        /\ UNCHANGED <<ws, pullInterval, proc, exitCodes>>

OnEventsHandler(data) ==
    LET ks == data.events
        ids == nextUuid..(nextUuid + Len(ks) - 1)
    IN  /\ nextUuid + Len(ks) - 1 <= MaxUuid
        /\ events' = [r \in ids |-> ks[r - nextUuid + 1]]
        /\ minDiv' = data.minDiv
        /\ maxDiv' = data.maxDiv
        /\ fx' = [k \in 1..Len(ks) |-> Send(getData(ks[k]), nextUuid + k - 1)]
        /\ nextUuid' = nextUuid + Len(ks)
        /\ retired' = retired \cup DOMAIN events
        /\ UNCHANGED <<ws, pullInterval, proc, exitCodes>>

\* _onDataHandler
OnDataHandlerMutSameOrder(data) ==
    LET set1 == data.data.set1
        set2 == data.data.set2
        eventId == Resolve(events, data.reqId)
        a == ProcessSet(set1, set2, "set1", eventId, minDiv, maxDiv, nextUuid)
        b == ProcessSet(set1, set2, "set2", eventId, minDiv, maxDiv,
                        nextUuid + Len(a))
    IN  /\ nextUuid + Len(a) + Len(b) - 1 <= MaxUuid
        /\ fx' = a \o b
        /\ nextUuid' = nextUuid + Len(a) + Len(b)
        /\ UNCHANGED <<ws, pullInterval, minDiv, maxDiv, events, proc,
                       exitCodes, retired>>

OnDataHandlerMutConsumes(data) ==
    LET set1 == data.data.set1
        set2 == data.data.set2
        eventId == Resolve(events, data.reqId)
        a == ProcessSet(set1, set2, "set1", eventId, minDiv, maxDiv, nextUuid)
        b == ProcessSet(set2, set1, "set2", eventId, minDiv, maxDiv,
                        nextUuid + Len(a))
    IN  /\ nextUuid + Len(a) + Len(b) - 1 <= MaxUuid
        /\ fx' = a \o b
        /\ nextUuid' = nextUuid + Len(a) + Len(b)
        /\ events' = [r \in DOMAIN events \ {data.reqId} |-> events[r]]
        /\ UNCHANGED <<ws, pullInterval, minDiv, maxDiv, proc,
                       exitCodes, retired>>

OnDataHandler(data) ==
    LET set1 == data.data.set1
        set2 == data.data.set2
        eventId == Resolve(events, data.reqId)
        a == ProcessSet(set1, set2, "set1", eventId, minDiv, maxDiv, nextUuid)
        b == ProcessSet(set2, set1, "set2", eventId, minDiv, maxDiv,
                        nextUuid + Len(a))
    IN  /\ nextUuid + Len(a) + Len(b) - 1 <= MaxUuid
        /\ fx' = a \o b
        /\ nextUuid' = nextUuid + Len(a) + Len(b)
        /\ UNCHANGED <<ws, pullInterval, minDiv, maxDiv, events, proc,
                       exitCodes, retired>>

\* _onLoseHandler and _onWinHandler
OnLoseHandlerMutZero == stop(0)

OnLoseHandler == stop(1)

OnWinHandler == stop(0)

\* _onMessage for a text that parses.
OnMessage ==
    /\ proc = "running"
    /\ ws \in {"OPEN", "CLOSING"}
    /\ \E data \in Inbound :
        /\ last' = [kind |-> "message", msg |-> data]
        /\ CASE Classify(data) = "events" -> OnEventsHandler(data)
             [] Classify(data) = "data" -> OnDataHandler(data)
             [] Classify(data) = "lose" -> OnLoseHandler
             [] Classify(data) = "win" -> OnWinHandler
             [] OTHER -> /\ fx' = << >>
                         /\ UNCHANGED <<ws, pullInterval, minDiv, maxDiv,
                                        events, nextUuid, proc, exitCodes,
                                        retired>>

\* _onMessage for a text that JSON.parse rejects: the SyntaxError leaves the
\* handler uncaught and ends the process; stop() is never reached.
OnUnparseable ==
    /\ proc = "running"
    /\ ws \in {"OPEN", "CLOSING"}
    /\ proc' = "crashed"
    /\ fx' = << >>
    /\ last' = [kind |-> "message", msg |-> Unparseable]
    /\ UNCHANGED <<ws, pullInterval, minDiv, maxDiv, events, nextUuid,
                   exitCodes, retired>>

\* stop(code) called by the embedding program.  stop is marked @private: it
\* is called for a client that was started, so this._ws exists.
Stop ==
    /\ proc = "running"
    /\ ws # "none"
    /\ \E code \in {0, 1} : stop(code)
    /\ last' = [kind |-> "stop"]

\* A message the server sends to a process that has ended: process.exit
\* returned control to nobody, so no handler runs.
Undelivered ==
    /\ proc # "running"
    /\ ws # "none"
    /\ \E data \in TerminalMsgs \cup OtherMsgs :
           last' = [kind |-> "undelivered", msg |-> data]
    /\ fx' = << >>
    /\ UNCHANGED <<ws, pullInterval, minDiv, maxDiv, events, nextUuid, proc,
                   exitCodes, retired>>

Next ==
    \/ Start
    \/ OnOpen
    \/ Tick
    \/ OnMessage
    \/ OnUnparseable
    \/ Stop
    \/ Undelivered

Spec == Init /\ [][Next]_vars

\* ---------------------------------------------------- reading the state

\* The states of the protocol state machine, read off the client's fields.
State ==
    IF proc # "running" THEN "Terminated"
    ELSE IF ws = "none" THEN "Idle"
    ELSE IF ws = "CONNECTING" THEN "Connecting"
    ELSE "Polling"

IsSend(e) == e.op = "send"

\* The messages the last handler handed to the socket, in order.
Sent == LET s == SelectSeq(fx, IsSend) IN [i \in 1..Len(s) |-> s[i].msg]

Range(s) == {s[i] : i \in DOMAIN s}

\* The last handler ran for a message that parsed and has field f.
Handled == last.kind = "message" /\ last.msg # Unparseable

Has(f) == f \in DOMAIN last.msg

HandledEvents == Handled /\ Has("events")

HandledData == Handled /\ ~Has("events") /\ Has("data")

HandledTerminal(t) ==
    Handled /\ ~Has("events") /\ ~Has("data") /\ Has("message")
            /\ last.msg.message = t

\* a < b for two finite rationals
RatLt(a, b) == a[1] * b[2] < b[1] * a[2]

\* q lies strictly between the bounds the client holds.
Inside(q) ==
    /\ minDiv # Null /\ maxDiv # Null
    /\ q[2] # 0
    /\ RatLt(minDiv, q) /\ RatLt(q, maxDiv)

\* The confirm commands among Sent for series label `set`.
ConfirmsFor(set) ==
    LET IsIt(m) == m.cmd = "confirm" /\ m.set = set
    IN  SelectSeq(Sent, IsIt)

\* -------------------------------------------------------------- claims

\* C1: after an events update the correlator table holds exactly the keys of
\* the message's events object, one entry per key and nothing of an earlier
\* update, and the handler sent exactly one getData per key, each with a
\* request id different from the others.
C1_EventsUpdateReplaces ==
    HandledEvents =>
        LET ks == last.msg.events
        IN  /\ {events[r] : r \in DOMAIN events} = Range(ks)
            /\ Cardinality(DOMAIN events) = Len(ks)
            /\ Len(fx) = Len(ks)
            /\ Len(Sent) = Len(ks)
            /\ \A i \in 1..Len(ks) :
                  /\ Sent[i].cmd = "getData"
                  /\ Sent[i].eventId = ks[i]
            /\ \A i, j \in 1..Len(ks) :
                  i # j => Sent[i].reqId # Sent[j].reqId

\* An events update with two keys that superseded an earlier, non-empty one.
C1_Witness ==
    /\ HandledEvents
    /\ Len(last.msg.events) = 2
    /\ retired # {}

\* C2 (as claimed): a data response carrying a request id of a superseded
\* poll cycle is dropped, so the handler sends nothing for it.
C2_StaleResponseDropped ==
    (HandledData /\ last.msg.reqId \in retired) => Sent = << >>

\* C3: for every index whose reference element is non-zero, a confirm for
\* that index is sent if and only if the rounded quotient lies strictly
\* between minDiv and maxDiv; a quotient equal to a bound sends none.
C3_ConfirmIffStrictlyInside ==
    HandledData =>
        \A p \in {<<"set1", "set2">>, <<"set2", "set1">>} :
            LET primary == last.msg.data[p[1]]
                reference == last.msg.data[p[2]]
                both == {i \in DOMAIN primary \cap DOMAIN reference :
                            reference[i] # 0}
            IN  \A i \in both :
                    LET ratio == ToPrecision3(
                                    Rat(Sign(reference[i]) * primary[i],
                                        Abs(reference[i])))
                        sent == \E k \in DOMAIN ConfirmsFor(p[1]) :
                                    ConfirmsFor(p[1])[k].n = i - 1
                    IN  /\ sent <=> Inside(ratio)
                        /\ (ratio = minDiv \/ ratio = maxDiv) => ~sent

\* A data response in which one quotient equals minDiv (5/10 = 0.5), one
\* equals maxDiv (20/18 rounds to 1.11) and one lies inside (18/20 = 0.9).
C3_Witness ==
    /\ HandledData
    /\ last.msg.data = [set1 |-> <<10, 20>>, set2 |-> <<5, 18>>]
    /\ minDiv = <<1, 2>> /\ maxDiv = <<111, 100>>
    /\ Len(Sent) = 1

\* The scenario of C4: bounds (1.0, 2.0), a resolved data response with
\* set1 = [10, 20] and set2 = [5, 18].
C4_Scenario ==
    /\ HandledData
    /\ last.msg.data = [set1 |-> <<10, 20>>, set2 |-> <<5, 18>>]
    /\ last.msg.reqId \in DOMAIN events
    /\ minDiv = <<1, 1>> /\ maxDiv = <<2, 1>>

\* C4 (as claimed): in the scenario the only confirm for set1 is
\* (eventId, "set1", 1, 1.111).
C4_ScenarioThreeDecimals ==
    C4_Scenario =>
        /\ Div(last.msg.data.set1, last.msg.data.set2, 0) = <<2, 1>>
        /\ Div(last.msg.data.set1, last.msg.data.set2, 1) = <<1111, 1000>>
        /\ Len(ConfirmsFor("set1")) = 1
        /\ ConfirmsFor("set1")[1].n = 1
        /\ ConfirmsFor("set1")[1].div = <<1111, 1000>>
        /\ ConfirmsFor("set1")[1].eventId = events[last.msg.reqId]

\* C4 (amended): in the scenario the ratios of set1 against set2 are 2.00 and
\* 1.11, the quotient rounded to three significant digits; index 0 sends no
\* confirm and index 1 sends exactly the confirm (eventId, "set1", 1, 1.11).
C4_ScenarioThreeDigits ==
    C4_Scenario =>
        /\ Div(last.msg.data.set1, last.msg.data.set2, 0) = <<2, 1>>
        /\ Div(last.msg.data.set1, last.msg.data.set2, 1) = <<111, 100>>
        /\ Len(ConfirmsFor("set1")) = 1
        /\ ConfirmsFor("set1")[1].n = 1
        /\ ConfirmsFor("set1")[1].div = <<111, 100>>
        /\ ConfirmsFor("set1")[1].eventId = events[last.msg.reqId]

C4_Witness == C4_Scenario /\ Len(Sent) = 1

\* C5: a terminal message that follows a terminal message reaches no
\* handler: the cleanup (timer cancelled, socket closed, exit signalled) has
\* been performed exactly once and the second delivery does nothing.
C5_TerminationOnce ==
    /\ Len(exitCodes) <= 1
    /\ proc = "running" => exitCodes = << >>
    /\ proc = "exited" =>
          /\ Len(exitCodes) = 1
          /\ pullInterval # "armed"
          /\ ws = "CLOSING"
    /\ (last.kind = "undelivered" /\ proc = "exited") => fx = << >>

\* Win was delivered after the client had already stopped with code 0.
C5_Witness ==
    /\ last.kind = "undelivered"
    /\ last.msg = [message |-> "Win"]
    /\ exitCodes = <<0>>

\* C6: Lose ends the client with a non-zero exit code and Win with exit code
\* 0; either way the timer is cancelled, the socket closed and the exit
\* signalled exactly once.
C6_TerminalOutcome ==
    \A t \in {"Lose", "Win"} :
        HandledTerminal(t) =>
            LET code == IF t = "Win" THEN 0 ELSE 1
            IN  /\ State = "Terminated"
                /\ exitCodes = <<code>>
                /\ pullInterval = "cleared"
                /\ ws = "CLOSING"
                /\ fx = <<[op |-> "clearInterval"], [op |-> "close"],
                          [op |-> "exit", code |-> code]>>

C6_Witness == HandledTerminal("Lose") /\ exitCodes = <<1>>

\* C7: a message with an events field is handled as an events update only,
\* whatever else it carries: nothing is evaluated and the client does not
\* stop; a message with a data field and no events field is handled as a
\* data response only, even when it also carries Win or Lose.
C7_FirstShapeWins ==
    /\ HandledEvents =>
          /\ State = "Polling"
          /\ exitCodes = << >>
          /\ minDiv = last.msg.minDiv /\ maxDiv = last.msg.maxDiv
          /\ Len(fx) = Len(last.msg.events)
          /\ \A i \in DOMAIN Sent : Sent[i].cmd = "getData"
          /\ {events[r] : r \in DOMAIN events} = Range(last.msg.events)
    /\ HandledData =>
          /\ State = "Polling"
          /\ exitCodes = << >>
          /\ \A i \in DOMAIN Sent : Sent[i].cmd = "confirm"

\* An events update that also carried a data field whose ratios qualify.
C7_Witness ==
    /\ HandledEvents
    /\ Has("data")
    /\ Len(Sent) = 1

\* C8: the open notification sends one getEvents and then arms the timer;
\* the timer stays armed for as long as the client is polling, and a tick
\* sends exactly one getEvents.
C8_PollOnOpenAndOnTick ==
    /\ last.kind = "open" =>
          /\ Len(fx) = 2
          /\ fx[1].op = "send" /\ fx[1].msg.cmd = "getEvents"
          /\ fx[2].op = "setInterval"
    /\ last.kind = "tick" =>
          /\ Len(fx) = 1
          /\ fx[1].op = "send" /\ fx[1].msg.cmd = "getEvents"
    /\ State = "Polling" => pullInterval = "armed"
    /\ State \in {"Idle", "Connecting"} => pullInterval = "null"

\* A tick after an events update had been received.
C8_Witness ==
    /\ last.kind = "tick"
    /\ DOMAIN events # {}

\* C9: every message sent carries a request id that no earlier message
\* carried; the id of a getData is tracked against the getData's event id,
\* and the id of a getEvents or a confirm is tracked against nothing.
C9_EveryMessageStamped ==
    \A i \in DOMAIN Sent :
        /\ "reqId" \in DOMAIN Sent[i]
        /\ Sent[i].reqId = nextUuid - Len(Sent) + i - 1
        /\ Sent[i].cmd = "getData" =>
              /\ Sent[i].reqId \in DOMAIN events
              /\ events[Sent[i].reqId] = Sent[i].eventId
        /\ Sent[i].cmd # "getData" =>
              Sent[i].reqId \notin DOMAIN events \cup retired

\* A confirm was sent while a poll cycle's requests were tracked.
C9_Witness ==
    /\ DOMAIN events # {}
    /\ \E i \in DOMAIN Sent : Sent[i].cmd = "confirm"

\* C10: a tracked request id resolves to the event id it was tracked
\* against until the next events update; after it, no request id tracked
\* before resolves.
C10_ResolveAfterTrackAndReset ==
    /\ \A r \in retired : Resolve(events, r) = Undefined
    /\ HandledEvents =>
          \A i \in DOMAIN Sent :
              Resolve(events, Sent[i].reqId) = Sent[i].eventId
    /\ (HandledData /\ last.msg.reqId \in DOMAIN events) =>
          \A i \in DOMAIN Sent :
              Sent[i].eventId = Resolve(events, last.msg.reqId)

\* A data response resolved in the second poll cycle and produced a confirm.
C10_Witness ==
    /\ HandledData
    /\ last.msg.reqId \in DOMAIN events
    /\ retired # {}
    /\ Sent # << >>

\* The rounded quotient of element i (counted from 1) of `primary` by the
\* element of `reference` at the same place; NaN when there is none.
RatioAt(primary, reference, i) ==
    IF i \notin DOMAIN primary \/ i \notin DOMAIN reference THEN NaN
    ELSE IF reference[i] = 0 THEN
        IF primary[i] = 0 THEN NaN ELSE <<Sign(primary[i]), 0>>
    ELSE ToPrecision3(Rat(Sign(reference[i]) * primary[i], Abs(reference[i])))

Other(set) == IF set = "set1" THEN "set2" ELSE "set1"

\* C11 (as claimed): every confirm sent for a data response carries the
\* event id the response's request id resolves to, the label of the primary
\* series, the zero-based index of the hit and the ratio that passed the
\* bounds check.
C11_ConfirmCarriesConfirmation ==
    HandledData =>
        \A k \in DOMAIN Sent :
            LET m == Sent[k]
            IN  /\ m.cmd = "confirm"
                /\ "eventId" \in DOMAIN m
                /\ m.eventId = Resolve(events, last.msg.reqId)
                /\ m.set \in {"set1", "set2"}
                /\ m.div = RatioAt(last.msg.data[m.set],
                                   last.msg.data[Other(m.set)], m.n + 1)
                /\ Inside(m.div)

\* C12 (as claimed): a payload that does not parse is discarded and the
\* client keeps polling.
C12_UnparseableDiscarded ==
    (last.kind = "message" /\ last.msg = Unparseable) =>
        /\ State = "Polling"
        /\ pullInterval = "armed"
        /\ fx = << >>

\* C13 (as claimed): a data response whose series differ in length is
\* discarded: nothing is sent for it and the client keeps polling.
C13_MismatchedLengthsDiscarded ==
    (HandledData
        /\ Len(last.msg.data.set1) # Len(last.msg.data.set2)) =>
        /\ Sent = << >>
        /\ State = "Polling"

\* What the client holds besides the record of its last handler.
held == <<ws, pullInterval, minDiv, maxDiv, events, nextUuid, proc,
          exitCodes, retired>>

\* The handler that just ran was called for a message that parsed and has
\* none of the four shapes.
HandledOther ==
    /\ Handled
    /\ ~Has("events") /\ ~Has("data")
    /\ Has("message") => last.msg.message \notin {"Win", "Lose"}

\* C14: handling a message of no recognised shape changes nothing the client
\* holds (bounds, correlator table, timer, socket, process) and sends nothing.
C14_UnknownShapeIgnored ==
    [][HandledOther' => (UNCHANGED held /\ fx' = << >>)]_vars

\* A message of no recognised shape arrived in the middle of a poll cycle.
C14_Witness ==
    /\ HandledOther
    /\ last.msg = [message |-> "Draw"]
    /\ DOMAIN events # {}
    /\ State = "Polling"

\* The places of operation `op` in the record of the last handler.
Places(op) == {i \in DOMAIN fx : fx[i].op = op}

\* The last handler ended the client: Win, Lose or a call of stop.
Stopped == HandledTerminal("Win") \/ HandledTerminal("Lose")
           \/ last.kind = "stop"

\* C15: every termination cancels the timer, then closes the socket, then
\* signals completion, each once and in that order; once the socket is
\* closed the timer is not armed and no handler sends anything.
C15_CleanupOrder ==
    /\ Stopped =>
          /\ Cardinality(Places("clearInterval")) = 1
          /\ Cardinality(Places("close")) = 1
          /\ Cardinality(Places("exit")) = 1
          /\ \A i \in Places("clearInterval"), j \in Places("close"),
                k \in Places("exit") : i < j /\ j < k
    /\ ws = "CLOSING" =>
          /\ pullInterval # "armed"
          /\ Sent = << >>
          /\ Stopped \/ last.kind = "undelivered"

\* stop was called while the client was polling, its timer armed.
C15_Witness ==
    /\ last.kind = "stop"
    /\ pullInterval = "cleared"
    /\ ws = "CLOSING"

\* The zero-based indices of `primary` whose rounded quotient by `reference`
\* lies strictly between the bounds.
HitSet(primary, reference) ==
    {i - 1 : i \in {j \in DOMAIN primary :
                        Inside(RatioAt(primary, reference, j))}}

\* The indices the confirms for label `set` carry.
Confirmed(set) == {ConfirmsFor(set)[k].n : k \in DOMAIN ConfirmsFor(set)}

\* C16: a data response whose request id resolves is evaluated twice: set1
\* against set2 under the label "set1" and then set2 against set1 under the
\* label "set2", both for the resolved event id and under the bounds held.
C16_EvaluatedBothWays ==
    (HandledData /\ last.msg.reqId \in DOMAIN events) =>
        LET set1 == last.msg.data.set1
            set2 == last.msg.data.set2
        IN  /\ Confirmed("set1") = HitSet(set1, set2)
            /\ Confirmed("set2") = HitSet(set2, set1)
            /\ Sent = ConfirmsFor("set1") \o ConfirmsFor("set2")
            /\ \A k \in DOMAIN Sent :
                  /\ Sent[k].eventId = events[last.msg.reqId]
                  /\ Sent[k].div =
                        RatioAt(last.msg.data[Sent[k].set],
                                last.msg.data[Other(Sent[k].set)],
                                Sent[k].n + 1)

\* A resolved response of two different series for which each direction
\* produced a confirm.
C16_Witness ==
    /\ HandledData
    /\ last.msg.reqId \in DOMAIN events
    /\ ConfirmsFor("set1") # << >>
    /\ ConfirmsFor("set2") # << >>
    /\ last.msg.data.set1 # last.msg.data.set2

\* C17: for each direction of a data response the handler sends one confirm
\* per index whose ratio lies strictly inside the bounds, as many confirms as
\* there are such indices, in increasing order of the index and each under a
\* request id of its own.
C17_NoEarlyExit ==
    HandledData =>
        \A set \in {"set1", "set2"} :
            LET c == ConfirmsFor(set)
                hits == HitSet(last.msg.data[set], last.msg.data[Other(set)])
            IN  /\ Len(c) = Cardinality(hits)
                /\ \A k \in DOMAIN c : c[k].n \in hits
                /\ \A k \in DOMAIN c : \A l \in DOMAIN c :
                      k < l => (c[k].n < c[l].n /\ c[k].reqId # c[l].reqId)

\* One direction of a data response had two indices inside the bounds.
C17_Witness ==
    /\ HandledData
    /\ last.msg.reqId \in DOMAIN events
    /\ \E set \in {"set1", "set2"} : Len(ConfirmsFor(set)) >= 2

\* C18: an index whose reference element is 0 never produces a confirm,
\* whether the primary element is 0 or not; the handler goes on to the
\* indices after it, which produce a confirm exactly when their ratio lies
\* strictly inside the bounds, and the client keeps running.
C18_ZeroReferenceExcluded ==
    HandledData =>
        \A set \in {"set1", "set2"} :
            LET primary == last.msg.data[set]
                reference == last.msg.data[Other(set)]
            IN  \A i \in DOMAIN primary \cap DOMAIN reference :
                    reference[i] = 0 =>
                        /\ (i - 1) \notin Confirmed(set)
                        /\ \A j \in DOMAIN primary :
                              j > i => ((j - 1) \in Confirmed(set)
                                        <=> Inside(RatioAt(primary, reference, j)))
                        /\ State = "Polling"

\* With bounds set, [10, 20] was evaluated against [0, 20]: 10/0 sent
\* nothing and 20/20 after it sent a confirm.
C18_Witness ==
    /\ HandledData
    /\ minDiv # Null
    /\ last.msg.data = [set1 |-> <<10, 20>>, set2 |-> <<0, 20>>]
    /\ Confirmed("set1") = {1}

\* The bounds and the correlator table are those of the events update the
\* last handler ran for.
OfLastUpdate ==
    /\ minDiv = last.msg.minDiv
    /\ maxDiv = last.msg.maxDiv
    /\ {events[r] : r \in DOMAIN events} = Range(last.msg.events)
    /\ Cardinality(DOMAIN events) = Len(last.msg.events)

\* C19: the bounds and the correlator table change only in the handler of an
\* events update, which sets both from the same message; so between handlers
\* the bounds are always those of the update the table comes from.
C19_BoundsAndEventsTogether ==
    [][/\ (minDiv' # minDiv \/ maxDiv' # maxDiv \/ events' # events)
            => HandledEvents'
       /\ HandledEvents' => OfLastUpdate']_vars

\* A data response was evaluated in a second poll cycle, under the bounds
\* (0.5, 1.11) of the update that announced its event.
C19_Witness ==
    /\ HandledData
    /\ last.msg.reqId \in DOMAIN events
    /\ retired # {}
    /\ minDiv = <<1, 2>> /\ maxDiv = <<111, 100>>
    /\ Sent # << >>

\* The messages of s without their request ids.
Unstamped(s) ==
    [k \in DOMAIN s |-> [f \in DOMAIN s[k] \ {"reqId"} |-> s[k][f]]]

\* C20: the handler of a data response changes neither the correlator table
\* nor the bounds; and when the same resolved response is delivered again,
\* it is evaluated again and sends the same confirms under new request ids.
C20_DataResponseReadsOnly ==
    [][HandledData' =>
          /\ UNCHANGED <<events, minDiv, maxDiv, retired>>
          /\ (HandledData /\ last' = last
                /\ last.msg.reqId \in DOMAIN events) =>
                    /\ Unstamped(Sent') = Unstamped(Sent)
                    /\ nextUuid' = nextUuid + Len(Sent)]_vars

\* A resolved data response sent a confirm under request id 4 although the
\* only request tracked is 2: an identifier was used in between, and the
\* entry is still in the table.
C20_Witness ==
    /\ HandledData
    /\ DOMAIN events = {2}
    /\ last.msg.reqId = 2
    /\ Len(Sent) = 1
    /\ Sent[1].reqId = 4

====
